---- MODULE Spec2Model ----
(***************************************************************************)
(* Model of ap/tasks/base/remote.py: the HTCondor job configuration of     *)
(* HTCondorWorkflow and the bundle tasks BundleRepo, BundleSoftware and    *)
(* BundleCMSSW.                                                            *)
(*                                                                         *)
(* Strings are TLC strings; Len, SubSeq and \o act on them character-wise. *)
(***************************************************************************)
EXTENDS Integers, Sequences, FiniteSets, TLC

VARIABLES
    task,       \* HTCondorWorkflow: parameters, os.environ, proxy state, sandboxes
    config,     \* the job config object handed to htcondor_job_config
    call,       \* htcondor_job_config: config on entry, outcome, lookups made
    bundles,    \* bundle task instances: position in run(), temporary target
    localfs,    \* local files: path -> [writer, state], or NoFile
    store,      \* remote store: the transfers (puts) performed, in order
    ptask,      \* a bundle task whose get_file_pattern is evaluated
    flags,      \* two BundleSoftware instances with their flag-file setups
    tree,       \* the path of an entry of $AP_SOFTWARE, as nested components
    tar         \* bundle.dump: depth visited, archive members, finished flag

vars == <<task, config, call, bundles, localfs, store, ptask, flags, tree, tar>>

\* the variables of each part of the program; a part that is not exercised
\* keeps its variables at Unused
composeVars == <<task, config, call>>
publishVars == <<bundles, localfs, store>>
dumpVars == <<tree, tar>>

Unused == "unused"

-----------------------------------------------------------------------------
(* String helpers, as used by os.path and str in the source.               *)

RECURSIVE LastIndexOf(_, _, _)
\* the largest i <= n with s[i] = ch, or 0 (str.rfind + 1)
LastIndexOf(s, ch, n) ==
    IF n = 0 THEN 0
    ELSE IF SubSeq(s, n, n) = ch THEN n
    ELSE LastIndexOf(s, ch, n - 1)

EndsWith(s, suffix) ==
    /\ Len(s) >= Len(suffix)
    /\ SubSeq(s, Len(s) - Len(suffix) + 1, Len(s)) = suffix

RECURSIVE Contains(_, _, _)
\* sub occurs in s at some position >= i
Contains(s, sub, i) ==
    IF i + Len(sub) - 1 > Len(s) THEN FALSE
    ELSE IF SubSeq(s, i, i + Len(sub) - 1) = sub THEN TRUE
    ELSE Contains(s, sub, i + 1)

\* os.path.basename
Basename(p) == SubSeq(p, LastIndexOf(p, "/", Len(p)) + 1, Len(p))

\* os.path.dirname
Dirname(p) == SubSeq(p, 1, LastIndexOf(p, "/", Len(p)) - 1)

\* os.path.splitext on a basename: split at the last dot, unless it leads
Splitext(b) ==
    LET i == LastIndexOf(b, ".", Len(b))
    IN  IF i <= 1 THEN <<b, "">>
        ELSE <<SubSeq(b, 1, i - 1), SubSeq(b, i, Len(b))>>

\* s[:-n]
DropLast(s, n) == IF Len(s) <= n THEN "" ELSE SubSeq(s, 1, Len(s) - n)

RECURSIVE JoinWith(_, _)
\* sep.join(seq)
JoinWith(sep, seq) ==
    IF Len(seq) = 0 THEN ""
    ELSE IF Len(seq) = 1 THEN seq[1]
    ELSE seq[1] \o sep \o JoinWith(sep, Tail(seq))

Quote(s) == "\"" \o s \o "\""

\* dict item assignment
Put(d, k, v) == [x \in DOMAIN d \cup {k} |-> IF x = k THEN v ELSE d[x]]

-----------------------------------------------------------------------------
(* Sentinels and environment.                                              *)

\* law.NO_INT, the empty value of an integer parameter (default of htcondor_cpus)
NO_INT == -1

\* law.NO_STR, the empty value of a string parameter (default of htcondor_group)
NO_STR == "NO_STR"

\* Python's None where the model needs to pass it
None == "None"

\* the variables read through os.environ[...] (a missing one raises KeyError)
EnvNames ==
    {"PATH", "PYTHONPATH", "AP_LCG_DIR", "AP_BASE", "AP_USER", "AP_STORE_NAME",
     "AP_LOCAL_SCHEDULER", "AP_SOFTWARE_FLAG_FILES"}

\* the value a variable has when it is set
EnvValue ==
    [PATH |-> "/usr/bin", PYTHONPATH |-> "/ap/modules", AP_LCG_DIR |-> "/cvmfs/lcg",
     AP_BASE |-> "/home/u/ap", AP_USER |-> "u", AP_STORE_NAME |-> "ap_store",
     AP_LOCAL_SCHEDULER |-> "true", AP_SOFTWARE_FLAG_FILES |-> "/sw/f1 /sw/f2"]

-----------------------------------------------------------------------------
(* Bundle tasks: output names and file patterns.                           *)

BundleKinds == {"BundleRepo", "BundleSoftware", "BundleCMSSW"}

\* Task.req(self, replicas=..., sandbox_file=...): a bundle task instance;
\* checksum is the value its checksum property yields
BundleTask(kind, replicas, sandbox_file, checksum) ==
    [kind |-> kind, replicas |-> replicas, sandbox_file |-> sandbox_file,
     checksum |-> checksum]

\* the environment variable single_output reads per kind ("" when none)
OutputEnv(b) ==
    CASE b.kind = "BundleRepo" -> "AP_BASE"
      [] b.kind = "BundleSoftware" -> "AP_SOFTWARE_FLAG_FILES"
      [] OTHER -> ""

\* single_output of the three tasks: the path of <base>.<checksum>.tgz on the store
single_output(b) ==
    LET base == CASE b.kind = "BundleRepo" -> Basename(EnvValue["AP_BASE"])
                  [] b.kind = "BundleSoftware" -> "software"
                  [] OTHER -> "CMSSW_" \o DropLast(Basename(b.sandbox_file), 3)
    IN  "/store/" \o b.kind \o "/" \o base \o "." \o b.checksum \o ".tgz"

\* TransferLocalFile.get_replicated_path: no replica marker leaves the path as it
\* is, a marker i goes between the name and the extension
get_replicated_path(path, i) ==
    IF i = None THEN path
    ELSE LET cut == LastIndexOf(path, "/", Len(path))
             parts == Splitext(SubSeq(path, cut + 1, Len(path)))
         IN  SubSeq(path, 1, cut) \o parts[1] \o "." \o i \o parts[2]

\* get_file_pattern with the marker chosen the other way round
get_file_pattern_swapped(b) ==
    get_replicated_path(single_output(b), IF b.replicas <= 0 THEN "*" ELSE None)

\* get_file_pattern of the three tasks
get_file_pattern(b) ==
    get_replicated_path(single_output(b), IF b.replicas <= 0 THEN None ELSE "*")

-----------------------------------------------------------------------------
(* HTCondorWorkflow.                                                       *)

\* replicas requested for every bundle by htcondor_workflow_requires
WorkflowReplicas == 3

\* voms proxy file found by law.wlcg.get_voms_proxy_file
ProxyFile == "/tmp/x509up_u1000"

WlcgToolsScript == "/law/contrib/wlcg/scripts/law_wlcg_tools.sh"

\* htcondor_workflow_requires: the bundle tasks required, by key; the base class
\* contributes none. "cmssw" maps to a sequence, one task per sandbox file.
htcondor_workflow_requires(t) ==
    LET base == [k \in {} |-> <<>>]
        two  == Put(Put(base, "repo", BundleTask("BundleRepo", WorkflowReplicas, "", "r0")),
                    "software", BundleTask("BundleSoftware", WorkflowReplicas, "", "s0"))
    IN  IF t.htcondor_getenv THEN base
        ELSE IF Len(t.cmssw_sandboxes) > 0
             THEN Put(two, "cmssw",
                      [i \in 1..Len(t.cmssw_sandboxes) |->
                          BundleTask("BundleCMSSW", WorkflowReplicas,
                                     t.cmssw_sandboxes[i], "c0")])
             ELSE two

\* the flattened list of bundle tasks behind a requirements mapping
RequiredKinds(reqs) ==
    {reqs[k].kind : k \in DOMAIN reqs \ {"cmssw"}}
        \cup (IF "cmssw" \in DOMAIN reqs THEN {"BundleCMSSW"} ELSE {})

\* the state of a running htcondor_job_config call
Frame(cfg) == [config |-> cfg, status |-> "run", error |-> "", uris |-> <<>>,
               info |-> <<>>, reqs_called |-> FALSE]

Raise(f, e) == [f EXCEPT !.status = "raised", !.error = e]

AppendInput(f, x) == [f EXCEPT !.config.input_files = Append(@, x)]

AppendContent(f, k, v) == [f EXCEPT !.config.custom_content = Append(@, <<k, v>>)]

SetRender(f, k, v) == [f EXCEPT !.config.render_variables = Put(@, k, v)]

\* config.render_variables[k] = os.environ[name]
SetRenderEnv(f, t, k, name) ==
    IF f.status # "run" THEN f
    ELSE IF name \notin t.environ THEN Raise(f, "KeyError: " \o name)
    ELSE SetRender(f, k, EnvValue[name])

\* get_bundle_info(task): task.output() evaluates single_output, which reads the
\* environment; then the uris of the output directory are looked up on the store;
\* then the pattern. The result is left in f.info.
get_bundle_info(f, t, b) ==
    IF f.status # "run" THEN f
    ELSE IF OutputEnv(b) # "" /\ OutputEnv(b) \notin t.environ
         THEN Raise(f, "KeyError: " \o OutputEnv(b))
    ELSE LET dir == Dirname(single_output(b))
         IN  [f EXCEPT !.uris = Append(@, dir),
                       !.info = Append(@, <<JoinWith(",", <<"gsiftp://a" \o dir,
                                                          "root://b" \o dir>>),
                                            Basename(get_file_pattern(b))>>)]

RECURSIVE BundleInfos(_, _, _, _)
\* [get_bundle_info(t) for t in tasks], from index i on
BundleInfos(f, t, tasks, i) ==
    IF i > Len(tasks) THEN f
    ELSE BundleInfos(get_bundle_info(f, t, tasks[i]), t, tasks, i + 1)

\* "({})".format(" ".join(map('"{}"'.format, xs)))
BashArray(xs) == "(" \o JoinWith(" ", [i \in 1..Len(xs) |-> Quote(xs[i])]) \o ")"

\* int(math.floor(self.max_runtime * 3600)) - 1, max_runtime = num/den hours
MaxRuntimeSeconds(t) == ((t.max_runtime[1] * 3600) \div t.max_runtime[2]) - 1

\* the proxy attached first and checked afterwards
IncludeProxyUnchecked(f, t) ==
    LET g == AppendInput(SetRender(AppendInput(f, ProxyFile),
                                   "ap_proxy_file", Basename(ProxyFile)),
                         WlcgToolsScript)
    IN  IF ~t.proxy_valid THEN Raise(g, "voms proxy not valid, submission aborted")
        ELSE g

\* lines 93-101: the proxy check, the proxy and the wlcg tools as input files
IncludeProxy(f, t) ==
    IF ~t.proxy_valid THEN Raise(f, "voms proxy not valid, submission aborted")
    ELSE AppendInput(SetRender(AppendInput(f, ProxyFile),
                               "ap_proxy_file", Basename(ProxyFile)),
                     WlcgToolsScript)

\* lines 103-105
PlatformDirective(f, t) ==
    IF f.status # "run" THEN f
    ELSE IF t.htcondor_flavor = "cern"
         THEN AppendContent(f, "requirements", "(OpSysAndVer =?= \"CentOS7\")")
         ELSE f

\* lines 107-109
GetenvDirective(f, t) ==
    IF f.status # "run" THEN f
    ELSE IF t.htcondor_getenv THEN AppendContent(f, "getenv", "true") ELSE f

\* lines 111-116
LogAndRuntime(f, t) ==
    IF f.status # "run" THEN f
    ELSE AppendContent(AppendContent(f, "log", "/dev/null"),
                       "+MaxRuntime", MaxRuntimeSeconds(t))

\* the cpu request made whenever the parameter differs from zero
RequestCpusNonZero(f, t) ==
    IF f.status # "run" THEN f
    ELSE IF t.htcondor_cpus # 0
         THEN AppendContent(f, "RequestCpus", t.htcondor_cpus)
         ELSE f

\* lines 118-120
RequestCpus(f, t) ==
    IF f.status # "run" THEN f
    ELSE IF t.htcondor_cpus > 0
         THEN AppendContent(f, "RequestCpus", t.htcondor_cpus)
         ELSE f

\* lines 122-124
AccountingGroup(f, t) ==
    IF f.status # "run" THEN f
    ELSE IF t.htcondor_group # "" /\ t.htcondor_group # NO_STR
         THEN AppendContent(f, "+AccountingGroup", t.htcondor_group)
         ELSE f

\* lines 127-131
GetenvVariables(f, t) ==
    IF f.status # "run" THEN f
    ELSE SetRenderEnv(
             SetRenderEnv(SetRender(f, "ap_bootstrap_name", "htcondor_getenv"),
                          t, "ap_env_path", "PATH"),
             t, "ap_env_pythonpath", "PYTHONPATH")

\* lines 152-166
SandboxVariables(f, t, reqs) ==
    IF f.status # "run" THEN f
    ELSE LET f0 == SetRender(SetRender(SetRender(f,
                       "ap_cmssw_sandbox_uris", "()"),
                       "ap_cmssw_sandbox_patterns", "()"),
                       "ap_cmssw_sandbox_names", "()")
         IN  IF "cmssw" \notin DOMAIN reqs THEN f0
             ELSE LET n  == Len(f0.info)
                      f1 == BundleInfos(f0, t, reqs["cmssw"], 1)
                      k  == Len(reqs["cmssw"])
                      uris     == [i \in 1..k |-> f1.info[n + i][1]]
                      patterns == [i \in 1..k |-> f1.info[n + i][2]]
                      names    == [i \in 1..k |->
                                     DropLast(Basename(reqs["cmssw"][i].sandbox_file), 3)]
                  IN  IF f1.status # "run" THEN f1
                      ELSE SetRender(SetRender(SetRender(f1,
                               "ap_cmssw_sandbox_uris", BashArray(uris)),
                               "ap_cmssw_sandbox_patterns", BashArray(patterns)),
                               "ap_cmssw_sandbox_names", BashArray(names))

\* lines 132-166
BundleVariables(f, t) ==
    IF f.status # "run" THEN f
    ELSE LET f0   == [SetRender(f, "ap_bootstrap_name", "htcondor_standalone")
                         EXCEPT !.reqs_called = TRUE]
             reqs == htcondor_workflow_requires(t)
             f1   == get_bundle_info(f0, t, reqs["software"])
             f2   == IF f1.status # "run" THEN f1
                     ELSE SetRender(SetRender(f1,
                              "ap_software_uris", f1.info[Len(f1.info)][1]),
                              "ap_software_pattern", f1.info[Len(f1.info)][2])
             f3   == get_bundle_info(f2, t, reqs["repo"])
             f4   == IF f3.status # "run" THEN f3
                     ELSE SetRender(SetRender(f3,
                              "ap_repo_uris", f3.info[Len(f3.info)][1]),
                              "ap_repo_pattern", f3.info[Len(f3.info)][2])
         IN  SandboxVariables(f4, t, reqs)

\* the mode branch that provisions bundles in both modes
ModeVariablesBoth(f, t) ==
    IF f.status # "run" THEN f
    ELSE IF t.htcondor_getenv
         THEN BundleVariables(GetenvVariables(f, t), [t EXCEPT !.htcondor_getenv = FALSE])
         ELSE BundleVariables(f, t)

\* lines 126-166
ModeVariables(f, t) ==
    IF f.status # "run" THEN f
    ELSE IF t.htcondor_getenv THEN GetenvVariables(f, t) ELSE BundleVariables(f, t)

\* lines 168-173
CommonVariables(f, t) ==
    IF f.status # "run" THEN f
    ELSE SetRenderEnv(SetRenderEnv(SetRenderEnv(SetRenderEnv(SetRenderEnv(
             SetRender(f, "ap_htcondor_flavor", t.htcondor_flavor),
             t, "ap_lcg_dir", "AP_LCG_DIR"),
             t, "ap_base", "AP_BASE"),
             t, "ap_user", "AP_USER"),
             t, "ap_store_name", "AP_STORE_NAME"),
             t, "ap_local_scheduler", "AP_LOCAL_SCHEDULER")

-----------------------------------------------------------------------------
(* Job configuration: the calls the workflow makes on one task.            *)

\* bounds of the parameter values tried
MaxCpus == 2

\* a job config as law hands it over: empty, or already holding entries
EntryConfigs ==
    {[input_files |-> <<>>, custom_content |-> <<>>,
      render_variables |-> [k \in {} |-> ""]],
     [input_files |-> <<"/law/job/bootstrap.sh">>,
      custom_content |-> <<<<"universe", "vanilla">>>>,
      render_variables |-> [k \in {"law_job_base"} |-> "/law/job"]]}

\* the parameter values of lines 20-55, the environment and the proxy state
Tasks ==
    [htcondor_getenv : BOOLEAN,
     htcondor_cpus   : {NO_INT, 0} \cup (1..MaxCpus),
     htcondor_group  : {NO_STR, "", "group_u_CMS"},
     htcondor_flavor : {"cern"},
     max_runtime     : {<<2, 1>>, <<1, 3>>},
     environ         : {EnvNames} \cup {EnvNames \ {x} : x \in EnvNames},
     proxy_valid     : BOOLEAN,
     cmssw_sandboxes : {<<>>, <<"cmssw_default.sh">>,
                        <<"/ap/sandboxes/cmssw_default.sh", "cmssw_prod.sh">>}]

InitCompose ==
    /\ task \in Tasks
    /\ config \in EntryConfigs
    /\ call = [phase |-> "idle", entry |-> config, error |-> "", uris |-> <<>>,
               reqs_called |-> FALSE, requires_done |-> FALSE, required |-> {}]

\* the workflow asks for the requirements of the submission
WorkflowRequires ==
    /\ call.phase \in {"idle", "returned", "raised"}
    /\ ~call.requires_done
    /\ call' = [call EXCEPT !.requires_done = TRUE,
                            !.required = RequiredKinds(htcondor_workflow_requires(task))]
    /\ UNCHANGED <<task, config>>
    /\ UNCHANGED <<publishVars, ptask, flags, dumpVars>>

\* htcondor_job_config(config, job_num, branches), lines 92-175: the statements
\* run in order until one raises; the call returns or raises
htcondor_job_config ==
    /\ call.phase = "idle"
    /\ \E f1 \in {IncludeProxy(Frame(config), task)} :
       \E f2 \in {PlatformDirective(f1, task)} :
       \E f3 \in {GetenvDirective(f2, task)} :
       \E f4 \in {LogAndRuntime(f3, task)} :
       \E f5 \in {RequestCpus(f4, task)} :
       \E f6 \in {AccountingGroup(f5, task)} :
       \E f7 \in {ModeVariables(f6, task)} :
       \E f8 \in {CommonVariables(f7, task)} :
           /\ config' = f8.config
           /\ call' = [call EXCEPT
                  !.phase = IF f8.status = "run" THEN "returned" ELSE "raised",
                  !.error = f8.error, !.uris = f8.uris,
                  !.reqs_called = f8.reqs_called]
    /\ UNCHANGED task
    /\ UNCHANGED <<publishVars, ptask, flags, dumpVars>>

-----------------------------------------------------------------------------
(* The bundle tasks' run methods, step by step, for concurrent task          *)
(* instances on one machine. A local file is an inode record: the tasks     *)
(* holding it open for writing and the tasks whose bytes it holds.          *)

\* how often one task instance is run
MaxRuns == 2

\* the task instances
Procs == {"t1", "t2"}

NoFile == [exists |-> FALSE, open |-> {}, wrote |-> {}]

\* software_path + ".tgz" with software_path = os.environ["AP_SOFTWARE"]
SoftwareBundlePath == "/ap/software" \o ".tgz"

\* the path of the temporary target created in run: BundleSoftware names it,
\* the others get a fresh random name from law.LocalFileTarget(is_tmp="tgz")
TargetPath(p, kind) ==
    IF kind = "BundleSoftware" THEN SoftwareBundlePath
    ELSE "/tmp/luigi-tmp-" \o p \o ".tgz"

LocalPaths == {TargetPath(p, k) : p \in Procs, k \in BundleKinds}

\* the output of a task of this kind with the source content unchanged
LogicalName(kind) == single_output(BundleTask(kind, 5, "cmssw_default.sh", "c0"))

\* law.decorator.safe_output is applied to run (lines 210 and 259, not 325)
SafeOutput(kind) == kind \in {"BundleRepo", "BundleSoftware"}

\* a temporary target that is removed only after a run that succeeded
CleanupOnSuccess(fs, path, err) ==
    IF err = "" THEN [fs EXCEPT ![path] = NoFile] ELSE fs

\* is_tmp: the target removes its file, if there is one, when run is left
Cleanup(fs, path, err) == [fs EXCEPT ![path] = NoFile]

InitPublish ==
    /\ bundles \in [Procs -> {[kind |-> k, pc |-> "ready", runs |-> 0, path |-> "",
                               error |-> "", sent |-> "", puts |-> 0] :
                              k \in BundleKinds}]
    /\ localfs = [x \in LocalPaths |-> NoFile]
    /\ store = [puts |-> [n \in {LogicalName(k) : k \in BundleKinds} |-> 0],
                present |-> {}]

\* run is left: the temporary target goes away, and safe_output removes the
\* task's output when run raised
Exit(p, err) ==
    /\ bundles' = [bundles EXCEPT ![p].pc = "exited", ![p].error = err]
    /\ localfs' = Cleanup(localfs, bundles[p].path, err)

RemoveOutputOnError(p, err, st) ==
    IF err # "" /\ SafeOutput(bundles[p].kind)
    THEN [st EXCEPT !.present = @ \ {LogicalName(bundles[p].kind)}]
    ELSE st

\* run starts: the target is created and bundle.dump / self.bundle opens the
\* archive for writing, truncating a file already at that path
RunStart(p) ==
    /\ bundles[p].pc \in {"ready", "exited"}
    /\ bundles[p].runs < MaxRuns
    /\ LET path == TargetPath(p, bundles[p].kind)
           old  == localfs[path]
       IN  /\ bundles' = [bundles EXCEPT ![p].pc = "dump", ![p].runs = @ + 1,
                                         ![p].path = path, ![p].error = "",
                                         ![p].sent = ""]
           /\ localfs' = [localfs EXCEPT ![path] =
                             [exists |-> TRUE, open |-> old.open \cup {p},
                              wrote |-> old.open \cup {p}]]
    /\ UNCHANGED store
    /\ UNCHANGED <<composeVars, ptask, flags, dumpVars>>

\* the archive is written and closed
DumpDone(p) ==
    /\ bundles[p].pc = "dump"
    /\ bundles' = [bundles EXCEPT ![p].pc = "dumped"]
    /\ localfs' = [localfs EXCEPT ![bundles[p].path].open = @ \ {p}]
    /\ UNCHANGED store
    /\ UNCHANGED <<composeVars, ptask, flags, dumpVars>>

\* building the archive raises
DumpFail(p) ==
    /\ bundles[p].pc = "dump"
    /\ Exit(p, "build")
    /\ store' = RemoveOutputOnError(p, "build", store)
    /\ UNCHANGED <<composeVars, ptask, flags, dumpVars>>

\* bundle.stat().st_size for the log message
Stat(p) ==
    /\ bundles[p].pc = "dumped"
    /\ IF localfs[bundles[p].path].exists
       THEN /\ bundles' = [bundles EXCEPT ![p].pc = "sized"]
            /\ UNCHANGED <<localfs, store>>
       ELSE /\ Exit(p, "ENOENT stat")
            /\ store' = RemoveOutputOnError(p, "ENOENT stat", store)
    /\ UNCHANGED <<composeVars, ptask, flags, dumpVars>>

\* reading the size or publishing the message raises
StatFail(p) ==
    /\ bundles[p].pc = "dumped"
    /\ Exit(p, "stat")
    /\ store' = RemoveOutputOnError(p, "stat", store)
    /\ UNCHANGED <<composeVars, ptask, flags, dumpVars>>

\* self.transfer(bundle): the file at the target's path goes to the store
Transfer(p) ==
    /\ bundles[p].pc = "sized"
    /\ LET f    == localfs[bundles[p].path]
           name == LogicalName(bundles[p].kind)
       IN  IF f.exists
           THEN /\ bundles' = [bundles EXCEPT
                       ![p].pc = "exited", ![p].puts = @ + 1,
                       ![p].sent = IF f.open # {} THEN "being written"
                                   ELSE IF f.wrote # {p} THEN "foreign"
                                   ELSE "own"]
                /\ localfs' = Cleanup(localfs, bundles[p].path, "")
                /\ store' = [store EXCEPT !.puts[name] = @ + 1,
                                          !.present = @ \cup {name}]
           ELSE /\ Exit(p, "ENOENT transfer")
                /\ store' = RemoveOutputOnError(p, "ENOENT transfer", store)
    /\ UNCHANGED <<composeVars, ptask, flags, dumpVars>>

\* the store refuses the transfer
TransferFail(p) ==
    /\ bundles[p].pc = "sized"
    /\ Exit(p, "transfer")
    /\ store' = RemoveOutputOnError(p, "transfer", store)
    /\ UNCHANGED <<composeVars, ptask, flags, dumpVars>>

-----------------------------------------------------------------------------
(* get_file_pattern of a bundle task with a given number of replicas.      *)

\* the replica counts tried are -MaxReplicas .. MaxReplicas
MaxReplicas == 5

InitPattern ==
    ptask \in [task : {BundleTask(k, r, f, c) :
                          k \in BundleKinds,
                          r \in (0 - MaxReplicas)..MaxReplicas,
                          f \in {"cmssw_default.sh"},
                          c \in {"c0", "9f3a", "0b.1"}},
               phase : {"new"}, pattern : {""}]

\* the task is asked for its file pattern
GetFilePattern ==
    /\ ptask.phase = "new"
    /\ ptask' = [ptask EXCEPT !.phase = "done", !.pattern = get_file_pattern(ptask.task)]
    /\ UNCHANGED <<composeVars, publishVars, flags, dumpVars>>

-----------------------------------------------------------------------------
(* BundleSoftware.checksum on two task instances, each with its own        *)
(* AP_SOFTWARE_FLAG_FILES and flag files.                                  *)

\* longest content of the first flag file
MaxLen == 2

Whitespace == {" "}

RECURSIVE Strs(_)
\* the strings over {"a", " "} of at most n characters
Strs(n) ==
    IF n = 0 THEN {""}
    ELSE LET S == Strs(n - 1) IN S \cup {x \o c : x \in S, c \in {"a", " "}}

RECURSIVE LStrip(_)
LStrip(x) ==
    IF Len(x) > 0 /\ SubSeq(x, 1, 1) \in Whitespace THEN LStrip(SubSeq(x, 2, Len(x)))
    ELSE x

RECURSIVE RStrip(_)
RStrip(x) ==
    IF Len(x) > 0 /\ SubSeq(x, Len(x), Len(x)) \in Whitespace
    THEN RStrip(SubSeq(x, 1, Len(x) - 1))
    ELSE x

\* str.strip
Strip(x) == LStrip(RStrip(x))

RECURSIVE SplitFrom(_, _, _)
SplitFrom(x, i, cur) ==
    IF i > Len(x) THEN (IF cur = "" THEN <<>> ELSE <<cur>>)
    ELSE IF SubSeq(x, i, i) \in Whitespace
         THEN (IF cur = "" THEN <<>> ELSE <<cur>>) \o SplitFrom(x, i + 1, "")
         ELSE SplitFrom(x, i + 1, cur \o SubSeq(x, i, i))

\* str.split without arguments
Split(x) == SplitFrom(x, 1, "")

\* law.util.create_hash(contents): a hash of str(contents), taken to be free of
\* collisions, so it is stood for by str(contents) itself
create_hash(contents) ==
    "[" \o JoinWith(", ", [i \in 1..Len(contents) |->
            "('" \o contents[i][1] \o "', '" \o contents[i][2] \o "')"]) \o "]"

RECURSIVE FlagContents(_, _, _)
\* lines 243-247: (flag_file, stripped content) of the flag files that exist
FlagContents(paths, files, i) ==
    IF i > Len(paths) THEN <<>>
    ELSE (IF paths[i] \in DOMAIN files /\ files[paths[i]].exists
          THEN <<<<paths[i], Strip(files[paths[i]].content)>>>>
          ELSE <<>>) \o FlagContents(paths, files, i + 1)

\* a checksum that reads the first flag file only
checksum_first_only(inst) ==
    IF inst._checksum # "" THEN inst._checksum
    ELSE LET paths == Split(Strip(inst.flag_files))
         IN  create_hash(FlagContents(SubSeq(paths, 1, 1), inst.files, 1))

\* the checksum property, lines 239-250
checksum(inst) ==
    IF inst._checksum # "" THEN inst._checksum
    ELSE create_hash(FlagContents(Split(Strip(inst.flag_files)), inst.files, 1))

FlagPaths == {"/f1", "/f2"}

FileStates(contents) ==
    {[exists |-> FALSE, content |-> ""]} \cup {[exists |-> TRUE, content |-> c] : c \in contents}

FlagSetups ==
    [flag_files : {"/f1 /f2", "/f2 /f1", " /f1 "},
     files : {[x \in FlagPaths |-> IF x = "/f1" THEN a ELSE b] :
                 a \in FileStates(Strs(MaxLen)), b \in FileStates({"", "a"})},
     _checksum : {""}]

InitChecksum == flags \in [{1, 2} -> FlagSetups]

\* instance i is asked for its checksum, which it memoizes
Checksum(i) ==
    /\ flags[i]._checksum = ""
    /\ flags' = [flags EXCEPT ![i]._checksum = checksum(flags[i])]
    /\ UNCHANGED <<composeVars, publishVars, ptask, dumpVars>>

-----------------------------------------------------------------------------
(* bundle.dump(software_path, filter=_filter): one entry of the software   *)
(* directory with the directories above it, added top down.                *)

\* how deep the entry lies below the software directory
MaxDepth == 2

\* the name of the bundled directory inside the archive
ArcRoot == "."

Components ==
    {"src", "module.py", "config", "pkg", ".git", ".github", "a.git", "x.pyc",
     "__pycache__", "build.tgz"}

RECURSIVE Paths(_)
Paths(n) ==
    IF n = 0 THEN {<<>>}
    ELSE LET P == Paths(n - 1) IN P \cup {Append(q, c) : q \in P, c \in Components}

\* tarinfo.name of the entry d levels below the bundled directory
EntryName(path, d) == ArcRoot \o "/" \o JoinWith("/", SubSeq(path, 1, d))

\* a filter whose pattern misses nested archives
_filter_without_tgz(name) ==
    ~(\/ EndsWith(name, ".pyc")
      \/ EndsWith(name, "/.git")
      \/ EndsWith(name, "__pycache__"))

\* _filter, lines 266-269: TRUE when the entry is kept; the pattern is
\* (\.pyc|\/\.git|\.tgz|__pycache__)$
_filter(name) ==
    ~(\/ EndsWith(name, ".pyc")
      \/ EndsWith(name, "/.git")
      \/ EndsWith(name, ".tgz")
      \/ EndsWith(name, "__pycache__"))

InitDump ==
    /\ tree \in Paths(MaxDepth) \ {<<>>}
    /\ tar = [depth |-> 0, members |-> {}, done |-> FALSE]

\* the next entry on the path is offered to the filter: a rejected entry is
\* left out together with everything below it
AddEntry ==
    /\ ~tar.done
    /\ LET d    == tar.depth + 1
           name == EntryName(tree, d)
       IN  IF _filter(name)
           THEN tar' = [depth |-> d, members |-> tar.members \cup {name},
                        done |-> (d = Len(tree))]
           ELSE tar' = [tar EXCEPT !.done = TRUE]
    /\ UNCHANGED tree
    /\ UNCHANGED <<composeVars, publishVars, ptask, flags>>

-----------------------------------------------------------------------------
(* Specifications: one per part of the program.                            *)

ComposeInit ==
    /\ InitCompose
    /\ bundles = Unused /\ localfs = Unused /\ store = Unused
    /\ ptask = Unused /\ flags = Unused /\ tree = Unused /\ tar = Unused

ComposeNext == WorkflowRequires \/ htcondor_job_config

SpecCompose == ComposeInit /\ [][ComposeNext]_vars

PublishInit ==
    /\ InitPublish
    /\ task = Unused /\ config = Unused /\ call = Unused
    /\ ptask = Unused /\ flags = Unused /\ tree = Unused /\ tar = Unused

PublishNext ==
    \E p \in Procs :
        \/ RunStart(p)
        \/ DumpDone(p)
        \/ DumpFail(p)
        \/ Stat(p)
        \/ StatFail(p)
        \/ Transfer(p)
        \/ TransferFail(p)

SpecPublish == PublishInit /\ [][PublishNext]_vars

PatternInit ==
    /\ InitPattern
    /\ task = Unused /\ config = Unused /\ call = Unused
    /\ bundles = Unused /\ localfs = Unused /\ store = Unused
    /\ flags = Unused /\ tree = Unused /\ tar = Unused

PatternNext == GetFilePattern

SpecPattern == PatternInit /\ [][PatternNext]_vars

ChecksumInit ==
    /\ InitChecksum
    /\ task = Unused /\ config = Unused /\ call = Unused
    /\ bundles = Unused /\ localfs = Unused /\ store = Unused
    /\ ptask = Unused /\ tree = Unused /\ tar = Unused

ChecksumNext == \E i \in {1, 2} : Checksum(i)

SpecChecksum == ChecksumInit /\ [][ChecksumNext]_vars

DumpInit ==
    /\ InitDump
    /\ task = Unused /\ config = Unused /\ call = Unused
    /\ bundles = Unused /\ localfs = Unused /\ store = Unused
    /\ ptask = Unused /\ flags = Unused

DumpNext == AddEntry

SpecDump == DumpInit /\ [][DumpNext]_vars

Init == ComposeInit

Next == ComposeNext

Spec == SpecCompose

-----------------------------------------------------------------------------
(* Properties of htcondor_job_config and htcondor_workflow_requires,       *)
(* checked under SpecCompose.                                              *)

BundleKeys ==
    {"ap_software_uris", "ap_software_pattern", "ap_repo_uris", "ap_repo_pattern",
     "ap_cmssw_sandbox_uris", "ap_cmssw_sandbox_patterns", "ap_cmssw_sandbox_names"}

PassthroughKeys == {"ap_env_path", "ap_env_pythonpath"}

\* the variables that must be set in either mode, and those of getenv mode
RequiredEnv(t) ==
    {"AP_LCG_DIR", "AP_BASE", "AP_USER", "AP_STORE_NAME", "AP_LOCAL_SCHEDULER"}
        \cup (IF t.htcondor_getenv THEN {"PATH", "PYTHONPATH"} ELSE {})

ConfigUnchanged ==
    /\ config.input_files = call.entry.input_files
    /\ Len(config.custom_content) = Len(call.entry.custom_content)
    /\ DOMAIN config.render_variables = DOMAIN call.entry.render_variables
    /\ \A k \in DOMAIN config.render_variables :
           config.render_variables[k] = call.entry.render_variables[k]

\* the positions of the directives the call appended under key k
Emitted(k) ==
    {i \in (Len(call.entry.custom_content) + 1)..Len(config.custom_content) :
        config.custom_content[i][1] = k}

\* C1: with an invalid or missing voms proxy the call raises, and when it has
\* raised the config is as it was on entry, the bundle requirements were not
\* asked for and no uri was looked up on the store.
C1_CredentialPrecondition ==
    (call.phase # "idle" /\ ~task.proxy_valid) =>
        /\ call.phase = "raised"
        /\ call.error = "voms proxy not valid, submission aborted"
        /\ ConfigUnchanged
        /\ ~call.reqs_called
        /\ call.uris = <<>>

C1_Witness ==
    /\ call.phase = "raised"
    /\ ~task.proxy_valid
    /\ call.entry.input_files # <<>>
    /\ ~task.htcondor_getenv

\* C5: after a call that returned, getenv mode has written none of the bundle
\* keys and requires no bundle task, bundle mode has written none of the
\* passthrough keys and emitted no getenv directive, and ap_bootstrap_name
\* names the mode.
C5_ModeExclusivity ==
    /\ (call.requires_done /\ task.htcondor_getenv) => call.required = {}
    /\ call.phase = "returned" =>
          IF task.htcondor_getenv
          THEN /\ BundleKeys \cap DOMAIN config.render_variables = {}
               /\ ~call.reqs_called
               /\ call.uris = <<>>
               /\ config.render_variables["ap_bootstrap_name"] = "htcondor_getenv"
          ELSE /\ PassthroughKeys \cap DOMAIN config.render_variables = {}
               /\ Emitted("getenv") = {}
               /\ config.render_variables["ap_bootstrap_name"] = "htcondor_standalone"

C5_Witness ==
    /\ call.phase = "returned"
    /\ call.requires_done
    /\ task.htcondor_getenv
    /\ PassthroughKeys \subseteq DOMAIN config.render_variables
    /\ Emitted("getenv") # {}

\* C6: once the call is past the proxy check, no RequestCpus directive has been
\* emitted when htcondor_cpus is at its default NO_INT, and exactly one, with the
\* value n, when htcondor_cpus is a positive n.
C6_CpuDirective ==
    (call.phase # "idle" /\ task.proxy_valid) =>
        /\ task.htcondor_cpus = NO_INT => Emitted("RequestCpus") = {}
        /\ task.htcondor_cpus > 0 =>
              /\ Cardinality(Emitted("RequestCpus")) = 1
              /\ \A i \in Emitted("RequestCpus") :
                     config.custom_content[i][2] = task.htcondor_cpus

C6_Witness ==
    /\ call.phase = "returned"
    /\ task.htcondor_cpus = MaxCpus
    /\ Emitted("RequestCpus") # {}

\* C9: when a required environment variable is absent the call raises with the
\* config as it was on entry, and in bundle mode before any uri lookup on the
\* store.
C9_ConfigErrorNoSideEffects ==
    (call.phase # "idle" /\ task.proxy_valid /\ ~(RequiredEnv(task) \subseteq task.environ)) =>
        /\ call.phase = "raised"
        /\ ConfigUnchanged
        /\ (~task.htcondor_getenv => call.uris = <<>>)

-----------------------------------------------------------------------------
(* Properties of the bundle tasks' run, checked under SpecPublish.         *)

\* C2: a task instance whose run was invoked twice with the source content
\* unchanged has performed at most one transfer to the store.
C2_PublishIdempotence ==
    \A p \in Procs :
        (bundles[p].runs = 2 /\ bundles[p].pc = "exited") => bundles[p].puts <= 1

C4_ConcurrentPublishersSafe ==
    \A p \in Procs :
        /\ bundles[p].sent \in {"", "own"}
        /\ bundles[p].error \notin {"ENOENT stat", "ENOENT transfer"}

\* the temporary targets of two tasks inside run are different files
IndependentTargets ==
    \A p, q \in Procs :
        (p # q /\ bundles[p].pc \notin {"ready", "exited"}
               /\ bundles[q].pc \notin {"ready", "exited"})
            => bundles[p].path # bundles[q].path

\* concurrent publishers of which at most one is a BundleSoftware are safe
SafeUnlessTwoSoftware ==
    Cardinality({p \in Procs : bundles[p].kind = "BundleSoftware"}) <= 1
        => (C4_ConcurrentPublishersSafe /\ IndependentTargets)

-----------------------------------------------------------------------------
(* Properties of get_file_pattern, checked under SpecPattern.              *)

-----------------------------------------------------------------------------
(* Properties of BundleSoftware.checksum, checked under SpecChecksum.      *)

Computed == flags[1]._checksum # "" /\ flags[2]._checksum # ""

ListedPaths(i) == {x \in FlagPaths : Contains(flags[i].flag_files, x, 1)}

SamePaths == Split(Strip(flags[1].flag_files)) = Split(Strip(flags[2].flag_files))

SameFiles ==
    \A x \in ListedPaths(1) :
        /\ flags[1].files[x].exists = flags[2].files[x].exists
        /\ flags[1].files[x].exists => flags[1].files[x].content = flags[2].files[x].content

\* some flag file is there in both setups and its bytes differ
SomeByteDiffers ==
    \E x \in ListedPaths(1) :
        /\ flags[1].files[x].exists /\ flags[2].files[x].exists
        /\ flags[1].files[x].content # flags[2].files[x].content

\* some flag file is there in both setups and differs after stripping
SomeStrippedContentDiffers ==
    \E x \in ListedPaths(1) :
        /\ flags[1].files[x].exists /\ flags[2].files[x].exists
        /\ Strip(flags[1].files[x].content) # Strip(flags[2].files[x].content)

ArchiveName(i) == single_output(BundleTask("BundleSoftware", 5, "", flags[i]._checksum))

\* C8 as claimed: equal flag files give equal fingerprints, and flag files that
\* differ in any byte give different fingerprints and archive names.
C8_FingerprintAnyByte ==
    (Computed /\ SamePaths) =>
        /\ SameFiles => flags[1]._checksum = flags[2]._checksum
        /\ SomeByteDiffers =>
              /\ flags[1]._checksum # flags[2]._checksum
              /\ ArchiveName(1) # ArchiveName(2)

\* C8 as the code has it: equal flag files give equal fingerprints, and flag
\* files that differ in a byte other than leading or trailing whitespace give
\* different fingerprints and archive names.
C8_FingerprintStripped ==
    (Computed /\ SamePaths) =>
        /\ SameFiles => flags[1]._checksum = flags[2]._checksum
        /\ SomeStrippedContentDiffers =>
              /\ flags[1]._checksum # flags[2]._checksum
              /\ ArchiveName(1) # ArchiveName(2)

C8_Witness ==
    /\ Computed
    /\ flags[1].flag_files = "/f1 /f2" /\ flags[2].flag_files = "/f1 /f2"
    /\ flags[1].files["/f1"] = flags[2].files["/f1"]
    /\ flags[1].files["/f1"].exists
    /\ flags[1].files["/f2"] = [exists |-> TRUE, content |-> ""]
    /\ flags[2].files["/f2"] = [exists |-> TRUE, content |-> "a"]
    /\ flags[1]._checksum # flags[2]._checksum

-----------------------------------------------------------------------------
(* Properties of the software archive's filter, checked under SpecDump.    *)

\* a path component that the exclude rules name
Excluded(c) ==
    \/ c = ".git"
    \/ EndsWith(c, ".pyc")
    \/ EndsWith(c, ".tgz")
    \/ EndsWith(c, "__pycache__")

\* C10: when the dump is through, an entry is in the archive exactly when
\* neither it nor a directory above it is a .git entry, ends in .pyc or .tgz,
\* or is a __pycache__ directory.
C10_ExcludeRules ==
    tar.done =>
        \A d \in 1..Len(tree) :
            (EntryName(tree, d) \in tar.members)
                <=> (\A j \in 1..d : ~Excluded(tree[j]))

C10_Witness ==
    /\ tar.done
    /\ tree = <<"pkg", "build.tgz">>
    /\ tar.members = {"./pkg"}

====
